---- MODULE Spec2Model ----
(***************************************************************************)
(* AOpenDriveActor (Unreal/CarlaUE4/Plugins/Carla/Source/Carla/            *)
(* OpenDriveActor.cpp): the editor property handler, BuildRoutes,          *)
(* RemoveRoutes, AddSpawners and RemoveSpawners as a state machine.         *)
(*                                                                         *)
(* Distances are integers in units of 0.05, so the 0.1f of line 219 is 2.  *)
(* The world's actors are functions from actor ids to records: SpawnActor  *)
(* adds an id, Destroy removes it.                                         *)
(***************************************************************************)
EXTENDS Naturals, Integers, Sequences, FiniteSets, Bags, TLC

\* ------------------------------------------------------------------ bounds
\* most successor entries a road network holds, over all its anchors
MaxEdges == 3
\* longest road, in units of 0.05
MaxLen == 4
\* largest RoadAccuracy, in units of 0.05
MaxAcc == 3
\* most bGenerateRoutes requests in one behaviour
MaxBuilds == 2

\* ------------------------------------------------------- the road network
\* 0.1f of line 219, in units of 0.05
Eps == 2

\* lanes are (roadId, laneId) pairs; road 1 has two lanes, road 2 one
L1 == <<1, -1>>
L2 == <<1, 1>>
L3 == <<2, -1>>
Lanes == {L1, L2, L3}
Roads == {1, 2}

Range(s) == {s[k] : k \in DOMAIN s}

RECURSIVE SeqsOver(_, _)
\* the sequences of distinct elements of S of length at most n
SeqsOver(S, n) ==
  IF n = 0 THEN {<< >>}
  ELSE LET shorter == SeqsOver(S, n - 1)
       IN shorter \cup {Append(s, x) : s \in shorter, x \in S}

DistinctSeqs(S) ==
  {s \in SeqsOver(S, Cardinality(S)) : Cardinality(Range(s)) = Len(s)}

RECURSIVE SumLen(_, _)
SumLen(f, S) ==
  IF S = {} THEN 0
  ELSE LET x == CHOOSE y \in S : TRUE IN Len(f[x]) + SumLen(f, S \ {x})

\* successor lists of every anchor: at most MaxEdges entries in all
SuccMaps ==
  {s \in [Lanes -> DistinctSeqs(Lanes)] : SumLen(s, Lanes) <= MaxEdges}

\* WaypointGen::GenerateLaneEnd returns one anchor per lane. The successor
\* lists below range over every lane in every order, so that one enumeration
\* of the anchors stands for the others up to a renaming of the lanes.
TopologyOrders == {<<L1, L2, L3>>}

\* networks that vary in topology: road 1 is the long road, road 2 a short one
TopologyNetworks ==
  [anchors : TopologyOrders,
   succ : SuccMaps,
   length : {[r \in Roads |-> IF r = 1 THEN MaxLen ELSE 1]},
   junction : SUBSET Roads,
   wellFormed : {TRUE}]

\* networks that vary in geometry: lane L1's sole successor is lane L3
GeometryNetworks ==
  [anchors : {<<L1, L2, L3>>},
   succ : {[l \in Lanes |-> IF l = L1 THEN <<L3>> ELSE << >>]},
   length : {[r \in Roads |-> d] : d \in 0..MaxLen},
   junction : {{}},
   wellFormed : BOOLEAN]

VARIABLES
  xodr,             \* the road network the level's .xodr file describes
  RoadAccuracy,     \* UPROPERTY: the sampling step
  bAddSpawners,     \* UPROPERTY
  bOnIntersections, \* UPROPERTY
  RoutePlanners,    \* TArray<ARoutePlanner *>: ids of route planner actors
  VehicleSpawners,  \* TArray<AVehicleSpawnPoint *>: ids of spawn point actors
  Planners,         \* the world's ARoutePlanner actors, by id
  Spawners,         \* the world's AVehicleSpawnPoint actors, by id
  pc,               \* position of the running handler
  \* the locals of BuildRoutes are set before they are read (lines 175-207);
  \* between two builds they hold what the last build left
  AlreadyVisited,   \* BuildRoutes local
  anchorIdx,        \* position of the loop of line 177
  Successors,       \* BuildRoutes local (line 179)
  succIdx,          \* position of the loop of line 186
  RoutePlanner,     \* BuildRoutes local (line 183); 0 is nullptr
  Waypoints,        \* BuildRoutes local (line 204)
  Dist,             \* loop variable of line 207
  nbuilds,          \* number of bGenerateRoutes requests so far
  routesBuilt,      \* the collection is the result of a completed traversal
  buildLog          \* summary of every completed traversal, oldest first

props == <<RoadAccuracy, bAddSpawners, bOnIntersections>>
world == <<RoutePlanners, VehicleSpawners, Planners, Spawners>>
locals == <<AlreadyVisited, anchorIdx, Successors, succIdx, RoutePlanner, Waypoints, Dist>>
hist == <<nbuilds, routesBuilt, buildLog>>
vars == <<xodr, props, world, pc, locals, hist>>

nullptr == 0

\* UWorld::SpawnActor: the id of the actor it creates
NewId(actors) ==
  IF DOMAIN actors = {} THEN 1
  ELSE 1 + CHOOSE m \in DOMAIN actors : \A id \in DOMAIN actors : id <= m

\* ------------------------------------------- the road network's queries
\* a waypoint is a lane and a distance s from the lane's start

\* WaypointGen::GenerateLaneEnd (line 170): one waypoint at the end of each lane
GenerateLaneEnd ==
  [k \in DOMAIN xodr.anchors |->
     [lane |-> xodr.anchors[k], s |-> xodr.length[xodr.anchors[k][1]]]]

\* WaypointGen::GetSuccessors (line 179): the successor lanes, at their start
GetSuccessors(EndLaneWaypoint) ==
  [k \in DOMAIN xodr.succ[EndLaneWaypoint.lane] |->
     [lane |-> xodr.succ[EndLaneWaypoint.lane][k], s |-> 0]]

GetRoadId(w) == w.lane[1]
GetLaneId(w) == w.lane[2]
GetLength(RoadId) == xodr.length[RoadId]
IsIntersection(w) == GetRoadId(w) \in xodr.junction
ComputeTransform(w) == [lane |-> w.lane, s |-> w.s]

\* how many waypoints one WaypointGen::GetNext query returns: one on a
\* well-formed network, none, one or several on a malformed one
GetNextSizes == IF xodr.wellFormed THEN {1} ELSE {0, 1, 2}

\* the first waypoint of a non-empty GetNext(w, d) result
GetNextFirst(w, d) == [lane |-> w.lane, s |-> w.s + d]

\* what reading element 0 of an empty vector may yield (line 219)
Garbage == [lane |-> <<0, 0>>, s |-> 0]

\* carla::geom::Math::clamp
Clamp(a, lo, hi) == IF a < lo THEN lo ELSE IF a > hi THEN hi ELSE a

\* a map without any road: GenerateLaneEnd returns no anchor
EmptyNetworks ==
  [anchors : {<< >>},
   succ : {[l \in Lanes |-> << >>]},
   length : {[r \in Roads |-> 1]},
   junction : {{}},
   wellFormed : BOOLEAN]

\* ------------------------------------------------- helpers of BuildRoutes
\* lines 20-34
WaypointVector2FVectorArray(Ws, TriggersHeight) ==
  [k \in DOMAIN Ws |-> [at |-> ComputeTransform(Ws[k]), dz |-> TriggersHeight]]

\* line 192
MakeIdentifier(RoadId, LaneId) == <<RoadId, LaneId>>

SameRoadOnly(i, Identifier) == i[1] = Identifier[1]
\* the lambda of lines 195-197
SameIdentifier(i, Identifier) == i[1] = Identifier[1] /\ i[2] = Identifier[2]

NeverVisited(Visited, Identifier) == FALSE
\* std::any_of of line 195
IsVisited(Visited, Identifier) ==
  \E k \in DOMAIN Visited : SameIdentifier(Visited[k], Identifier)

StaleAlreadyVisited == AlreadyVisited
\* line 175
NewAlreadyVisited == << >>

\* lines 204-205
FirstWaypoints(Successor) == <<Successor>>

FirstIntersection(Succs) == IsIntersection(Succs[1])
AllIntersection(Succs) == \A k \in DOMAIN Succs : IsIntersection(Succs[k])
\* lines 229-231: std::any_of over all the successors of the anchor
AnyIntersection(Succs) == \E k \in DOMAIN Succs : IsIntersection(Succs[k])

\* lines 228-235: the actor SpawnActor<ARoutePlanner> creates, once set up
NewRoutePlanner(EndLaneWaypoint, Succs) ==
  [build |-> nbuilds,
   bIsIntersection |-> AnyIntersection(Succs),
   ActorRotation |-> ComputeTransform(EndLaneWaypoint),
   ActorLocation |-> [at |-> ComputeTransform(EndLaneWaypoint), dz |-> "TriggersHeight"],
   Routes |-> << >>]

\* ARoutePlanner::AddRoute (line 238)
AddRoute(planner, probability, Positions) ==
  [planner EXCEPT !.Routes = Append(@, [probability |-> probability, points |-> Positions])]

\* ---------------------------------------------------------- RemoveRoutes
\* AActor::Destroy on every non-null entry of the array (lines 248-254, 301-307)
DestroyAll(array, actors) ==
  [id \in DOMAIN actors \ (Range(array) \ {nullptr}) |-> actors[id]]

RemoveRoutesNoDestroy(array, actors) == [array |-> << >>, actors |-> actors]
RemoveRoutesNoEmpty(array, actors) == [array |-> array, actors |-> DestroyAll(array, actors)]
\* lines 245-256
RemoveRoutes(array, actors) == [array |-> << >>, actors |-> DestroyAll(array, actors)]

RemoveSpawnersNoDestroy(array, actors) == [array |-> << >>, actors |-> actors]
\* lines 298-309
RemoveSpawners(array, actors) == [array |-> << >>, actors |-> DestroyAll(array, actors)]

\* ----------------------------------------------------------- AddSpawners
\* lines 288-291: the actor SpawnActor<AVehicleSpawnPoint> creates, once set up
NewSpawner(id, planner) ==
  [from |-> id,
   ActorRotation |-> planner.ActorRotation,
   ActorLocation |-> [at |-> planner.ActorLocation, dz |-> "SpawnersHeight"]]

RECURSIVE AddSpawnersFrom(_, _, _)
\* lines 278-295, from index i on
AddSpawnersFrom(i, array, actors) ==
  IF i > Len(RoutePlanners) THEN [array |-> array, actors |-> actors]
  ELSE IF RoutePlanners[i] = nullptr THEN AddSpawnersFrom(i + 1, array, actors)
  ELSE IF ~bOnIntersections /\ Planners[RoutePlanners[i]].bIsIntersection
       THEN AddSpawnersFrom(i + 1, array, actors)
  ELSE AddSpawnersFrom(i + 1,
         Append(array, NewId(actors)),
         actors @@ (NewId(actors) :> NewSpawner(RoutePlanners[i], Planners[RoutePlanners[i]])))

\* lines 276-296
AddSpawners(array, actors) == AddSpawnersFrom(1, array, actors)

\* lines 258-267 and 269-274: DebugRoutes and RemoveDebugRoutes are const and
\* draw or flush debug lines of the viewport: they leave the actor, its route
\* planners and its spawners as they are
DebugRoutes(actors) == actors
RemoveDebugRoutes(actors) == actors

\* ------------------------------------------------------------------ Init
NoLocals ==
  /\ AlreadyVisited = << >>
  /\ anchorIdx = 0
  /\ Successors = << >>
  /\ succIdx = 0
  /\ RoutePlanner = nullptr
  /\ Waypoints = << >>
  /\ Dist = 0

\* the actor as placed in a level: no routes, no spawners, any property values
InitActor ==
  /\ bAddSpawners \in BOOLEAN
  /\ bOnIntersections \in BOOLEAN
  /\ RoutePlanners = << >>
  /\ VehicleSpawners = << >>
  /\ Planners = << >>
  /\ Spawners = << >>
  /\ pc = "idle"
  /\ NoLocals
  /\ nbuilds = 0
  /\ routesBuilt = FALSE
  /\ buildLog = << >>

InitTopology ==
  /\ xodr \in TopologyNetworks
  /\ RoadAccuracy = MaxAcc
  /\ InitActor

InitGeometry ==
  /\ xodr \in GeometryNetworks
  /\ RoadAccuracy \in 1..MaxAcc
  /\ InitActor

InitEmpty ==
  /\ xodr \in EmptyNetworks
  /\ RoadAccuracy = MaxAcc
  /\ InitActor

Init == InitTopology \/ InitGeometry \/ InitEmpty

ParseErrorNullEntry(array, actors) == [array |-> Append(array, nullptr), actors |-> actors]
\* lines 160-164: on a parse error BuildRoutes logs the error and returns
ParseErrorReturn(array, actors) == [array |-> array, actors |-> actors]

\* ------------------------------------------------ PostEditChangeProperty
\* lines 88-96: bGenerateRoutes, up to the return of line 163 or the loop of
\* line 177; ParseError is whether the load of line 155 reports an error
OnGenerateRoutes(ParseError) ==
  /\ pc = "idle"
  /\ nbuilds < MaxBuilds
  /\ nbuilds' = nbuilds + 1
  /\ LET cleared == RemoveRoutes(RoutePlanners, Planners)
         r == IF ParseError THEN ParseErrorReturn(cleared.array, cleared.actors)
              ELSE cleared
         v == RemoveSpawners(VehicleSpawners, Spawners)
     IN /\ RoutePlanners' = r.array
        /\ Planners' = r.actors
        /\ VehicleSpawners' = v.array
        /\ Spawners' = v.actors
  /\ routesBuilt' = FALSE
  /\ IF ParseError
       THEN /\ pc' = "finish"
            /\ UNCHANGED locals
       ELSE /\ pc' = "anchor"
            /\ AlreadyVisited' = NewAlreadyVisited
            /\ anchorIdx' = 1
            /\ UNCHANGED <<Successors, succIdx, RoutePlanner, Waypoints, Dist>>
  /\ UNCHANGED <<xodr, props, buildLog>>

\* the point counts of the polylines of the collection, as a bag
PointCounts ==
  LET routes == UNION {{<<id, k>> : k \in DOMAIN Planners[id].Routes} :
                         id \in Range(RoutePlanners)}
      counts == {Len(Planners[r[1]].Routes[r[2]].points) : r \in routes}
  IN [n \in counts |->
        Cardinality({r \in routes : Len(Planners[r[1]].Routes[r[2]].points) = n})]

ReversedWaypointAt(k) == GenerateLaneEnd[Len(GenerateLaneEnd) + 1 - k]
\* line 177: the k-th EndLaneWaypoint of the range-for over MapLaneBeginWaypoint
EndLaneWaypointAt(k) == GenerateLaneEnd[k]

SameIndex(k) == k
\* lines 177, 186: a range-for moves on to the next element
NextIndex(k) == k + 1

\* lines 177-179, 183: the next anchor of the loop
BeginAnchor ==
  /\ pc = "anchor"
  /\ anchorIdx <= Len(GenerateLaneEnd)
  /\ Successors' = GetSuccessors(EndLaneWaypointAt(anchorIdx))
  /\ RoutePlanner' = nullptr
  /\ succIdx' = 1
  /\ pc' = "successor"
  /\ UNCHANGED <<xodr, props, world, AlreadyVisited, anchorIdx, Waypoints, Dist, hist>>

\* line 177 past the last anchor: BuildRoutes returns (line 243)
EndBuild ==
  /\ pc = "anchor"
  /\ anchorIdx > Len(GenerateLaneEnd)
  /\ pc' = "finish"
  /\ routesBuilt' = TRUE
  /\ buildLog' = Append(buildLog,
       [groups |-> Cardinality(Range(RoutePlanners)), counts |-> PointCounts])
  /\ UNCHANGED <<xodr, props, world, locals, nbuilds>>

\* line 186 past the last successor: on to the next anchor
EndAnchor ==
  /\ pc = "successor"
  /\ succIdx > Len(Successors)
  /\ anchorIdx' = NextIndex(anchorIdx)
  /\ pc' = "anchor"
  /\ UNCHANGED <<xodr, props, world, AlreadyVisited, Successors, succIdx, RoutePlanner,
                 Waypoints, Dist, hist>>

\* lines 186-197: a successor whose lane is in AlreadyVisited is skipped
SkipVisited ==
  /\ pc = "successor"
  /\ succIdx <= Len(Successors)
  /\ LET Successor == Successors[succIdx]
         Identifier == MakeIdentifier(GetRoadId(Successor), GetLaneId(Successor))
     IN IsVisited(AlreadyVisited, Identifier)
  /\ succIdx' = NextIndex(succIdx)
  /\ UNCHANGED <<xodr, props, world, pc, AlreadyVisited, anchorIdx, Successors,
                 RoutePlanner, Waypoints, Dist, hist>>

\* lines 186-207: a successor whose lane is new is marked and its sampling starts
BeginLane ==
  /\ pc = "successor"
  /\ succIdx <= Len(Successors)
  /\ LET Successor == Successors[succIdx]
         Identifier == MakeIdentifier(GetRoadId(Successor), GetLaneId(Successor))
     IN /\ ~IsVisited(AlreadyVisited, Identifier)
        /\ AlreadyVisited' = Append(AlreadyVisited, Identifier)
        /\ Waypoints' = FirstWaypoints(Successor)
  /\ Dist' = RoadAccuracy
  /\ pc' = "sampling"
  /\ UNCHANGED <<xodr, props, world, anchorIdx, Successors, succIdx, RoutePlanner, hist>>

LoopConditionInclusive(d, MaxDist) == d <= MaxDist
\* the condition of the loop of line 207
LoopCondition(d, MaxDist) == d < MaxDist

\* lines 207-215: one turn of the stepping loop, in which GetNext returns n
\* waypoints
StepSample(n) ==
  /\ pc = "sampling"
  /\ n \in GetNextSizes
  /\ LET Successor == Successors[succIdx]
         MaxDist == GetLength(GetRoadId(Successor))
     IN /\ LoopCondition(Dist, MaxDist)
        /\ IF n = 1
             THEN /\ Waypoints' = Append(Waypoints, GetNextFirst(Successor, Dist))
                  /\ Dist' = Dist + RoadAccuracy
                  /\ pc' = "sampling"
             ELSE \* check(NewWaypoint.size() == 1) fails: fatal
                  /\ pc' = "check212"
                  /\ UNCHANGED <<Waypoints, Dist>>
  /\ UNCHANGED <<xodr, props, world, AlreadyVisited, anchorIdx, Successors, succIdx,
                 RoutePlanner, hist>>

\* line 219 when GetNext returns an empty vector: reading its element 0 is
\* undefined, and one outcome is that the process dies there
ReadPastEnd ==
  /\ pc = "sampling"
  /\ ~LoopCondition(Dist, GetLength(GetRoadId(Successors[succIdx])))
  /\ 0 \in GetNextSizes
  /\ pc' = "segv219"
  /\ UNCHANGED <<xodr, props, world, locals, hist>>

WithoutLast(Ws, last) == Ws
\* lines 218-219: the final waypoint is appended
MergeLast(Ws, last) == Append(Ws, last)

\* lines 217-240 after the stepping loop: the polyline is completed and added
\* to the anchor's route planner, which is created if it does not exist yet;
\* the GetNext of line 218 returns n waypoints
AddPolyline(n) ==
  /\ pc = "sampling"
  /\ n \in GetNextSizes
  /\ LET Successor == Successors[succIdx]
         MaxDist == GetLength(GetRoadId(Successor))
     IN /\ ~LoopCondition(Dist, MaxDist)
        /\   LET last == IF n = 0 THEN Garbage
                         ELSE GetNextFirst(Successor, Clamp(MaxDist - Eps, 0, MaxDist))
                 Ws == MergeLast(Waypoints, last)
                 Positions == WaypointVector2FVectorArray(Ws, "TriggersHeight")
                 id == IF RoutePlanner = nullptr THEN NewId(Planners) ELSE RoutePlanner
                 actors == IF RoutePlanner = nullptr
                             THEN Planners @@
                                  (id :> NewRoutePlanner(EndLaneWaypointAt(anchorIdx), Successors))
                             ELSE Planners
             IN IF Len(Ws) >= 2
                  THEN /\ Waypoints' = Ws
                       /\ RoutePlanner' = id
                       /\ Planners' = [actors EXCEPT ![id] = AddRoute(@, 1, Positions)]
                       /\ RoutePlanners' = Append(RoutePlanners, id)
                       /\ succIdx' = NextIndex(succIdx)
                       /\ pc' = "successor"
                  ELSE \* check(Waypoints.size() >= 2) fails: fatal
                       /\ Waypoints' = Ws
                       /\ pc' = "check221"
                       /\ UNCHANGED <<RoutePlanner, Planners, RoutePlanners, succIdx>>
  /\ UNCHANGED <<xodr, props, VehicleSpawners, Spawners, AlreadyVisited,
                 anchorIdx, Successors, Dist, hist>>

\* lines 98-105: the spawners and the debug lines after BuildRoutes returns;
\* bShowDebug decides only whether the const DebugRoutes runs
FinishGenerate ==
  /\ pc = "finish"
  /\ LET v == IF bAddSpawners THEN AddSpawners(VehicleSpawners, Spawners)
              ELSE [array |-> VehicleSpawners, actors |-> Spawners]
     IN /\ VehicleSpawners' = v.array
        /\ Spawners' = v.actors
  /\ \E bShowDebug \in BOOLEAN :
       Planners' = IF bShowDebug THEN DebugRoutes(Planners) ELSE Planners
  /\ pc' = "idle"
  /\ UNCHANGED <<xodr, props, RoutePlanners, locals, hist>>

\* lines 108-118: bRemoveRoutes
OnRemoveRoutes ==
  /\ pc = "idle"
  /\ LET v == RemoveSpawners(VehicleSpawners, Spawners)
         r == RemoveRoutes(RoutePlanners, RemoveDebugRoutes(Planners))
     IN /\ VehicleSpawners' = v.array
        /\ Spawners' = v.actors
        /\ RoutePlanners' = r.array
        /\ Planners' = r.actors
  /\ routesBuilt' = FALSE
  /\ UNCHANGED <<xodr, props, pc, locals, nbuilds, buildLog>>

\* lines 119-129: bShowDebug, which the editor has just set
OnShowDebug ==
  /\ pc = "idle"
  /\ \E bShowDebug \in BOOLEAN :
       Planners' = IF bShowDebug THEN DebugRoutes(Planners)
                   ELSE RemoveDebugRoutes(Planners)
  /\ UNCHANGED <<xodr, props, RoutePlanners, VehicleSpawners, Spawners, pc, locals, hist>>

\* lines 130-138: bRemoveCurrentSpawners
OnRemoveCurrentSpawners ==
  /\ pc = "idle"
  /\ LET v == RemoveSpawners(VehicleSpawners, Spawners)
     IN /\ VehicleSpawners' = v.array
        /\ Spawners' = v.actors
  /\ UNCHANGED <<xodr, props, RoutePlanners, Planners, pc, locals, hist>>

\* lines 83-139 for bAddSpawners or bOnIntersections: the editor has changed
\* the property and no branch of the handler acts on it
OnEditFlag ==
  /\ pc = "idle"
  /\ \/ bAddSpawners' = ~bAddSpawners /\ UNCHANGED bOnIntersections
     \/ bOnIntersections' = ~bOnIntersections /\ UNCHANGED bAddSpawners
  /\ UNCHANGED <<xodr, RoadAccuracy, world, pc, locals, hist>>

Next ==
  \/ \E ParseError \in BOOLEAN : OnGenerateRoutes(ParseError)
  \/ BeginAnchor
  \/ EndAnchor
  \/ SkipVisited
  \/ BeginLane
  \/ \E n \in {0, 1, 2} : StepSample(n)
  \/ ReadPastEnd
  \/ \E n \in {0, 1, 2} : AddPolyline(n)
  \/ EndBuild
  \/ FinishGenerate
  \/ OnRemoveRoutes
  \/ OnShowDebug
  \/ OnRemoveCurrentSpawners
  \/ OnEditFlag

Spec == Init /\ [][Next]_vars

\* ------------------------------------------------------------ the claims
\* the lane a polyline was sampled on: the lane of its first point
LaneOf(route) == route.points[1].at.lane

\* the polylines of the world's route planners, as (planner id, index) pairs
AllRoutes ==
  UNION {{<<id, k>> : k \in DOMAIN Planners[id].Routes} : id \in DOMAIN Planners}

RoutesOfLane(l) == {r \in AllRoutes : LaneOf(Planners[r[1]].Routes[r[2]]) = l}

\* the lanes that are a successor of at least one anchor
SuccessorLanes == UNION {Range(xodr.succ[a]) : a \in Range(xodr.anchors)}

\* the anchors that have lane l as a successor
AnchorsOf(l) == {a \in Range(xodr.anchors) : l \in Range(xodr.succ[a])}

\* C1: during one BuildRoutes pass no (roadId, laneId) pair is sampled more
\* than once: the visited list never holds a pair twice and at most one
\* polyline exists for a lane.
NoDuplicateSampling ==
  /\ \A a, b \in DOMAIN AlreadyVisited :
       a # b => AlreadyVisited[a] # AlreadyVisited[b]
  /\ \A l \in Lanes : Cardinality(RoutesOfLane(l)) <= 1

\* a build has completed on a network where two anchors share a successor
\* lane, which was sampled once
SharedLaneSampledOnce ==
  /\ pc = "idle"
  /\ routesBuilt
  /\ \E l \in Lanes : Cardinality(AnchorsOf(l)) >= 2 /\ Cardinality(RoutesOfLane(l)) = 1

\* C2: after a build that completes on a well-formed network, every lane
\* that is a successor of some anchor has exactly one polyline, in exactly
\* one route planner of the collection, and no other lane has a polyline.
Coverage ==
  (pc = "idle" /\ routesBuilt /\ xodr.wellFormed) =>
    \A l \in Lanes :
      /\ Cardinality(RoutesOfLane(l)) = IF l \in SuccessorLanes THEN 1 ELSE 0
      /\ \A r \in RoutesOfLane(l) : r[1] \in Range(RoutePlanners)

\* a completed build on a well-formed network with both lanes of road 1
\* among the successors and lane L3 not
BothLanesOfARoadCovered ==
  /\ pc = "idle"
  /\ routesBuilt
  /\ xodr.wellFormed
  /\ SuccessorLanes = {L1, L2}
  /\ RoutesOfLane(L1) # {}
  /\ RoutesOfLane(L2) # {}
  /\ RoutesOfLane(L3) = {}

\* position of anchor lane a in the enumeration of the anchors
AnchorPos(a) == CHOOSE k \in DOMAIN xodr.anchors : xodr.anchors[k] = a

\* the anchors with a successor lane that no earlier anchor has
YieldingAnchors ==
  {a \in Range(xodr.anchors) :
     \E l \in Range(xodr.succ[a]) :
       \A b \in AnchorsOf(l) : AnchorPos(a) <= AnchorPos(b)}

\* C3: when a build completes, the collection holds exactly one entry per
\* anchor that yielded an unvisited successor lane, and no route planner
\* appears in it more than once.
OneEntryPerYieldingAnchor ==
  (pc = "idle" /\ routesBuilt) =>
    /\ Len(RoutePlanners) = Cardinality(YieldingAnchors)
    /\ \A a, b \in DOMAIN RoutePlanners : a # b => RoutePlanners[a] # RoutePlanners[b]

\* C4: a rebuild request whose map load reports a parse error leaves the
\* route collection unchanged and its route planners undestroyed.
FailedRebuildKeepsRoutes ==
  [][OnGenerateRoutes(TRUE) =>
       /\ RoutePlanners' = RoutePlanners
       /\ \A id \in Range(RoutePlanners) : id \in DOMAIN Planners']_vars

\* the successor lanes of a planner's anchor
AnchorSuccessors(planner) == Range(xodr.succ[planner.ActorRotation.lane])

\* C5 as stated: a route planner's intersection flag is true iff one of the
\* lanes that contributed a polyline to it is in a junction.
FlagIffContributingLaneInJunction ==
  pc = "idle" =>
    \A id \in DOMAIN Planners :
      Planners[id].bIsIntersection <=>
        \E k \in DOMAIN Planners[id].Routes :
          LaneOf(Planners[id].Routes[k])[1] \in xodr.junction

\* C5 as amended: a route planner's intersection flag is true iff one of the
\* successor lanes of its anchor is in a junction, whether that lane
\* contributed a polyline to it or was skipped as already visited.
FlagIffAnySuccessorInJunction ==
  \A id \in DOMAIN Planners :
    Planners[id].bIsIntersection <=>
      \E l \in AnchorSuccessors(Planners[id]) : l[1] \in xodr.junction

\* a build has completed with a planner flagged as intersection although no
\* lane that contributed to it is in a junction
FlaggedBySkippedSuccessor ==
  /\ pc = "idle"
  /\ routesBuilt
  /\ \E id \in DOMAIN Planners :
       /\ Planners[id].bIsIntersection
       /\ \A k \in DOMAIN Planners[id].Routes :
            LaneOf(Planners[id].Routes[k])[1] \notin xodr.junction

\* C6: after any sequence of rebuild and clear requests the collection
\* holds only route planners of the most recent build, the planners of
\* earlier builds are destroyed before the new build creates its first, and
\* every planner that exists is in the collection.
NoLeakAcrossRebuilds ==
  /\ \A id \in DOMAIN Planners : id \in Range(RoutePlanners)
  /\ \A id \in Range(RoutePlanners) :
       id \in DOMAIN Planners /\ Planners[id].build = nbuilds
  /\ (pc = "idle" /\ ~routesBuilt) => RoutePlanners = << >>

\* a second build has completed and produced route planners, after a first
\* build that had produced some
SecondBuildHoldsRoutes ==
  /\ pc = "idle"
  /\ nbuilds = 2
  /\ Len(buildLog) = 2
  /\ buildLog[1].groups >= 1
  /\ RoutePlanners # << >>

\* C7: rebuilding from the same road network yields the same number of
\* route planners and the same bag of polyline point counts every time.
RebuildDeterministic ==
  \A a, b \in DOMAIN buildLog : buildLog[a] = buildLog[b]

\* two builds have completed on a network where the first build visited
\* lanes and produced polylines
TwoBuildsWithPolylines ==
  /\ Len(buildLog) = 2
  /\ buildLog[1].groups >= 2
  /\ buildLog[2].counts # << >>

\* C8: RemoveRoutes leaves the collection empty with every route planner it
\* held destroyed, and running it again on the result changes nothing.
ClearEmptiesAndDestroys ==
  [][OnRemoveRoutes =>
       /\ RoutePlanners' = << >>
       /\ \A id \in Range(RoutePlanners) : id \notin DOMAIN Planners'
       /\ RemoveRoutes(RoutePlanners', Planners') =
            [array |-> << >>, actors |-> Planners']]_vars

\* the only build so far produced route planners and the collection has
\* been cleared since
ClearedAfterBuild ==
  /\ pc = "idle"
  /\ nbuilds = 1
  /\ Len(buildLog) = 1
  /\ buildLog[1].groups >= 1
  /\ RoutePlanners = << >>
  /\ Planners = << >>

\* C9: every polyline of every route planner has at least 2 points, for
\* every road length and every positive RoadAccuracy, and the check of line
\* 221 never fails.
MinPolylineLength ==
  /\ \A r \in AllRoutes : Len(Planners[r[1]].Routes[r[2]].points) >= 2
  /\ pc # "check221"

\* a polyline of exactly 2 points sampled on a road of length 0
TwoPointsOnEmptyRoad ==
  /\ xodr.length[2] = 0
  /\ \E r \in RoutesOfLane(L3) : Len(Planners[r[1]].Routes[r[2]].points) = 2

\* the spawn points derived from route planner id
SpawnersFrom(actors, id) == {v \in DOMAIN actors : actors[v].from = id}

\* C10: AddSpawners derives exactly one spawn point for each eligible route
\* planner of the collection and none for one flagged as intersection when
\* bOnIntersections is false.
OneSpawnerPerEligibleGroup ==
  [][(FinishGenerate /\ bAddSpawners) =>
       \A id \in Range(RoutePlanners) :
         Cardinality(SpawnersFrom(Spawners', id)) =
           IF bOnIntersections \/ ~Planners[id].bIsIntersection THEN 1 ELSE 0]_vars

\* the positions at which a build has stopped on a fatal error
FatalPcs == {"check212", "check221", "segv219"}

\* C11: whenever a GetNext query of a build returns no waypoint or more than
\* one, in the stepping loop or for the final sample near the lane end, the
\* build stops on a fatal error and no polyline is added from that result.
NonSingleQueryAborts ==
  [][\A n \in {0, 2} :
       (StepSample(n) \/ AddPolyline(n)) =>
         /\ pc' \in FatalPcs
         /\ RoutePlanners' = RoutePlanners
         /\ Planners' = Planners]_vars

\* the anchor a route planner was created for
AnchorOfPlanner(planner) == planner.ActorRotation.lane

\* C12: no empty route planner is ever created: every route planner holds at
\* least one polyline and every entry of the collection is a live planner;
\* after a completed build no planner exists for an anchor without
\* successors or whose successors had all been visited; on a network without
\* anchors, or where no anchor has a successor, the build ends without a
\* fatal error and with an empty collection.
NoEmptyRouteGroup ==
  /\ \A id \in DOMAIN Planners : Len(Planners[id].Routes) >= 1
  /\ \A k \in DOMAIN RoutePlanners :
       RoutePlanners[k] # nullptr /\ RoutePlanners[k] \in DOMAIN Planners
  /\ (pc = "idle" /\ routesBuilt) =>
       \A id \in DOMAIN Planners : AnchorOfPlanner(Planners[id]) \in YieldingAnchors
  /\ SuccessorLanes = {} =>
       /\ pc \notin FatalPcs
       /\ RoutePlanners = << >>
       /\ Planners = << >>

\* a build has completed and produced route planners on a network where an
\* anchor has successors that had all been visited when its turn came
AnchorWithOnlyVisitedSuccessors ==
  /\ pc = "idle"
  /\ routesBuilt
  /\ RoutePlanners # << >>
  /\ \E a \in Range(xodr.anchors) :
       /\ xodr.succ[a] # << >>
       /\ a \notin YieldingAnchors
       /\ \A id \in DOMAIN Planners : AnchorOfPlanner(Planners[id]) # a

\* the anchor enumerated first among those that have lane l as a successor
FirstAnchorOf(l) ==
  CHOOSE a \in AnchorsOf(l) : \A b \in AnchorsOf(l) : AnchorPos(a) <= AnchorPos(b)

\* the lanes of the polylines of a route planner
LanesOfPlanner(planner) == {LaneOf(planner.Routes[k]) : k \in DOMAIN planner.Routes}

\* C13: after a completed build on a network where several anchors have lane
\* l as a successor, l has one polyline, held by the planner of the anchor
\* enumerated first; the planner of a later anchor holds no polyline for l,
\* and a later anchor none of whose successors was unvisited has no planner.
SharedLaneGoesToFirstAnchor ==
  (pc = "idle" /\ routesBuilt) =>
    \A l \in Lanes :
      Cardinality(AnchorsOf(l)) >= 2 =>
        /\ Cardinality(RoutesOfLane(l)) = 1
        /\ \A id \in DOMAIN Planners :
             l \in LanesOfPlanner(Planners[id]) <=>
               AnchorOfPlanner(Planners[id]) = FirstAnchorOf(l)
        /\ \A a \in AnchorsOf(l) \ {FirstAnchorOf(l)} :
             (\A m \in Range(xodr.succ[a]) : FirstAnchorOf(m) # a) =>
               \A id \in DOMAIN Planners : AnchorOfPlanner(Planners[id]) # a

\* a build has completed on a network where two anchors share a successor
\* lane; the earlier anchor's planner holds its polyline and the later anchor
\* has a planner of its own for another lane
LaterAnchorKeepsOtherLane ==
  /\ pc = "idle"
  /\ routesBuilt
  /\ \E l \in SuccessorLanes : \E a \in AnchorsOf(l) \ {FirstAnchorOf(l)} :
       \E id, jd \in DOMAIN Planners :
         /\ AnchorOfPlanner(Planners[id]) = FirstAnchorOf(l)
         /\ l \in LanesOfPlanner(Planners[id])
         /\ AnchorOfPlanner(Planners[jd]) = a
         /\ LanesOfPlanner(Planners[jd]) # {}
         /\ l \notin LanesOfPlanner(Planners[jd])

\* the length of the road a polyline was sampled on
MaxDistOf(route) == xodr.length[LaneOf(route)[1]]

\* the number of integers k >= 1 with k * RoadAccuracy < MaxDist
SteppedSamples(MaxDist) ==
  Cardinality({k \in 1..MaxDist : k * RoadAccuracy < MaxDist})

\* C14: on a well-formed network every polyline has exactly 2 + N points,
\* N the number of integers k >= 1 with k * RoadAccuracy < MaxDist: the
\* start of the lane, one point at each distance k * RoadAccuracy, and a
\* final point at distance clamp(MaxDist - 0.1, 0, MaxDist); so exactly 2
\* points when RoadAccuracy >= MaxDist.
PolylinePointCount ==
  xodr.wellFormed =>
    \A r \in AllRoutes :
      LET route == Planners[r[1]].Routes[r[2]]
          MaxDist == MaxDistOf(route)
          N == SteppedSamples(MaxDist)
      IN /\ Len(route.points) = 2 + N
         /\ route.points[1].at.s = 0
         /\ \A k \in 1..N : route.points[k + 1].at.s = k * RoadAccuracy
         /\ route.points[N + 2].at.s = Clamp(MaxDist - Eps, 0, MaxDist)
         /\ RoadAccuracy >= MaxDist => Len(route.points) = 2

\* a completed build on a well-formed network has sampled a road of length
\* twice RoadAccuracy into 3 points: the start, one stepped sample, the final
HalfwaySampleOnly ==
  /\ pc = "idle"
  /\ routesBuilt
  /\ xodr.wellFormed
  /\ \E r \in AllRoutes :
       LET route == Planners[r[1]].Routes[r[2]]
       IN /\ MaxDistOf(route) = 2 * RoadAccuracy
          /\ Len(route.points) = 3
          /\ route.points[2].at.s = RoadAccuracy

RECURSIVE VisitSuccessors(_, _)
\* lines 186-200 as a function: the visited list after the loop over the
\* successor lanes Succs of one anchor, entered with the list Visited
VisitSuccessors(Succs, Visited) ==
  IF Succs = << >> THEN Visited
  ELSE LET Identifier == MakeIdentifier(Head(Succs)[1], Head(Succs)[2])
       IN IF IsVisited(Visited, Identifier)
            THEN VisitSuccessors(Tail(Succs), Visited)
            ELSE VisitSuccessors(Tail(Succs), Append(Visited, Identifier))

RECURSIVE VisitAnchors(_, _, _)
\* lines 177-186 as a function: the visited list after the loop over anchors
VisitAnchors(anchors, succ, Visited) ==
  IF anchors = << >> THEN Visited
  ELSE VisitAnchors(Tail(anchors), succ, VisitSuccessors(succ[Head(anchors)], Visited))

\* lines 175-200: the lanes a build samples when GenerateLaneEnd returns
\* anchors and GetSuccessors returns succ
SampledLanes(anchors, succ) == Range(VisitAnchors(anchors, succ, NewAlreadyVisited))

\* the orders in which the elements of a duplicate-free sequence can come
Perms(s) == {p \in DistinctSeqs(Range(s)) : Len(p) = Len(s)}

\* the successor maps that list the same successors in another order
PermutedSuccessors(succ) ==
  {[l \in Lanes |-> IF l = L1 THEN p1 ELSE IF l = L2 THEN p2 ELSE p3] :
     p1 \in Perms(succ[L1]), p2 \in Perms(succ[L2]), p3 \in Perms(succ[L3])}

\* the lanes that have a polyline
LanesWithPolyline == {LaneOf(Planners[r[1]].Routes[r[2]]) : r \in AllRoutes}

\* C15: the set of lanes that have a polyline when a build completes is the
\* set the traversal samples under every permutation of the anchors and of
\* each anchor's successors: the enumeration order does not change it.
SampledLanesOrderIndependent ==
  (pc = "finish" /\ routesBuilt) =>
    \A anchors \in Perms(xodr.anchors) :
      \A succ \in PermutedSuccessors(xodr.succ) :
        SampledLanes(anchors, succ) = LanesWithPolyline

\* a build has completed on a network with a lane shared by two anchors, and
\* another enumeration order visits the lanes in another sequence
OtherOrderVisitsDifferently ==
  /\ pc = "finish"
  /\ routesBuilt
  /\ \E l \in LanesWithPolyline : Cardinality(AnchorsOf(l)) >= 2
  /\ \E anchors \in Perms(xodr.anchors) :
       \E succ \in PermutedSuccessors(xodr.succ) :
         VisitAnchors(anchors, succ, NewAlreadyVisited) # AlreadyVisited

\* C16: on a well-formed network the distances of the points of every
\* polyline increase strictly from the start of the lane to the final point,
\* so that no segment, the trailing one included, has length zero or runs
\* backward, for every road length >= 0 and every RoadAccuracy > 0.
StrictlyIncreasingSamples ==
  xodr.wellFormed =>
    \A r \in AllRoutes :
      LET points == Planners[r[1]].Routes[r[2]].points
      IN \A k \in 1..(Len(points) - 1) : points[k].at.s < points[k + 1].at.s

\* C17: when a build creates the route planner of an anchor, its intersection
\* flag is true exactly when one of the successors of that anchor, the
\* skipped and the not yet processed ones included, is in a junction; the flag
\* of an existing planner is never changed afterwards.
FlagSetOnceAtCreation ==
  [][\A id \in DOMAIN Planners' :
       IF id \in DOMAIN Planners
         THEN Planners'[id].bIsIntersection = Planners[id].bIsIntersection
         ELSE Planners'[id].bIsIntersection =
                (\E k \in DOMAIN Successors : Successors[k].lane[1] \in xodr.junction)]_vars

\* a route planner has just been created and flagged as intersection for a
\* successor in a junction that the loop has not reached yet, while its only
\* polyline lies outside a junction
FlaggedByPendingSuccessor ==
  /\ pc = "successor"
  /\ RoutePlanner # nullptr
  /\ Planners[RoutePlanner].bIsIntersection
  /\ Len(Planners[RoutePlanner].Routes) = 1
  /\ LaneOf(Planners[RoutePlanner].Routes[1])[1] \notin xodr.junction
  /\ \A k \in 1..(succIdx - 1) : ~IsIntersection(Successors[k])
  /\ \E k \in succIdx..Len(Successors) : IsIntersection(Successors[k])

\* the positions inside the traversal of BuildRoutes (lines 177-242)
BuildPcs == {"anchor", "successor", "sampling"}

\* one step of a running BuildRoutes
BuildStep ==
  \/ BeginAnchor
  \/ EndBuild
  \/ EndAnchor
  \/ SkipVisited
  \/ BeginLane
  \/ \E n \in {0, 1, 2} : StepSample(n)
  \/ ReadPastEnd
  \/ \E n \in {0, 1, 2} : AddPolyline(n)

\* BuildRoutes runs to its end on the game thread once the handler calls it:
\* a build that can take a step eventually takes one
FairSpec == Spec /\ WF_vars(BuildStep)

\* C18: with RoadAccuracy > 0 on a finite network with finite road lengths,
\* a build that has started always ends: it completes the traversal or it
\* stops on a fatal error; in particular the stepping loop is left.
BuildEnds == (pc \in BuildPcs) ~> (pc \in {"finish"} \cup FatalPcs)

\* a build has completed the traversal after a stepping loop of several turns
CompletedAfterStepping ==
  /\ pc = "finish"
  /\ routesBuilt
  /\ RoadAccuracy > 0
  /\ \E r \in AllRoutes : Len(Planners[r[1]].Routes[r[2]].points) >= 4

\* C19: when the map load reports a parse error, BuildRoutes returns without
\* adding, removing or destroying a route planner and without touching the
\* spawn points: the step leaves RoutePlanners and the planners as the
\* RemoveRoutes of line 94 left them, VehicleSpawners and the spawn points as
\* the RemoveSpawners of line 95 left them, and BuildRoutes's part of the
\* step maps the collection it is handed to itself.
ParseErrorLeavesCollections ==
  [][OnGenerateRoutes(TRUE) =>
       /\ RoutePlanners' = RemoveRoutes(RoutePlanners, Planners).array
       /\ Planners' = RemoveRoutes(RoutePlanners, Planners).actors
       /\ VehicleSpawners' = RemoveSpawners(VehicleSpawners, Spawners).array
       /\ Spawners' = RemoveSpawners(VehicleSpawners, Spawners).actors
       /\ ParseErrorReturn(RoutePlanners, Planners) =
            [array |-> RoutePlanners, actors |-> Planners]]_vars

\* a rebuild has met a parse error after a build that had completed with
\* route planners: BuildRoutes has returned and nothing has been built
ParseErrorAfterBuild ==
  /\ pc = "finish"
  /\ ~routesBuilt
  /\ nbuilds = 2
  /\ Len(buildLog) = 1
  /\ buildLog[1].groups >= 1
  /\ AlreadyVisited # << >>

\* C20: after any sequence of editor property events every spawn point that
\* exists is in VehicleSpawners and was derived from a route planner that
\* exists and is in RoutePlanners; there are no more spawn points than
\* entries of RoutePlanners, however many rebuilds there were.
SpawnersDerivedFromRoutes ==
  /\ \A v \in DOMAIN Spawners :
       /\ v \in Range(VehicleSpawners)
       /\ Spawners[v].from \in Range(RoutePlanners)
       /\ Spawners[v].from \in DOMAIN Planners
       /\ Spawners[v].ActorRotation = Planners[Spawners[v].from].ActorRotation
  /\ \A k \in DOMAIN VehicleSpawners : VehicleSpawners[k] \in DOMAIN Spawners
  /\ Cardinality(DOMAIN Spawners) <= Len(RoutePlanners)

\* a second build has completed and spawn points have been derived from its
\* route planners, after a first build that had produced route planners
SpawnersAfterRebuild ==
  /\ pc = "idle"
  /\ nbuilds = 2
  /\ Len(buildLog) = 2
  /\ buildLog[1].groups >= 1
  /\ Spawners # << >>

====
